---- MODULE Spec2Model ----
(***************************************************************************)
(* KRPC message codec of krpc-message: the typed codec of src/lib.rs       *)
(* (Message with a Payload variant) and the flat codec of src/raw.rs       *)
(* (Message with optional fields), both written over the bendy bencode     *)
(* library.                                                                *)
(*                                                                         *)
(* A bencode value is modelled as the tree bendy hands to the codec:       *)
(*   [k |-> "int",   v |-> an integer]                                     *)
(*   [k |-> "bytes", v |-> a sequence of bytes 0..255]                     *)
(*   [k |-> "list",  v |-> a sequence of values]                           *)
(*   [k |-> "dict",  v |-> a sequence of [key, val] pairs in wire order]   *)
(* Two trees are equal exactly when their serialisations are equal byte    *)
(* for byte.  bendy's own limits (nesting depth, key order of its          *)
(* tokenizer) are not part of the codec and are not modelled.              *)
(***************************************************************************)
EXTENDS Integers, Sequences, FiniteSets, TLC

VARIABLES src, cur, trace

vars == <<src, cur, trace>>

(***************************************************************************)
(* Bounds of the model.                                                    *)
(***************************************************************************)
MaxOps == 2        \* codec operations applied in a row to one datum
MaxNodes == 2      \* longest nodes / values list of a generated message

(***************************************************************************)
(* Widths fixed by the program.                                            *)
(***************************************************************************)
HashLen == 20
AddrLen == 6
NodeLen == 26
IpLen == 4
TidLen == 2

(***************************************************************************)
(* Option and Result values.                                               *)
(***************************************************************************)
None == [some |-> FALSE]
Some(x) == [some |-> TRUE, val |-> x]

Ok(x) == [ok |-> TRUE, val |-> x]
Err(kind, field) == [ok |-> FALSE, kind |-> kind, field |-> field, ctx |-> <<>>]

\* decoding::Error::missing_field(name)
missing_field(name) == Err("MissingField", name)
\* decoding::Error::malformed_content(..)
malformed_content == Err("MalformedContent", "")
\* what bendy's Object::try_into_* returns for a value of another kind
unexpected_token == Err("UnexpectedToken", "")
\* what bendy's sorted dictionary encoder returns for keys out of order
unsorted_keys == Err("StructureError", "")

\* ResultExt::context: the outer name is put in front of the trail
context(res, name) ==
    IF res.ok THEN res ELSE [res EXCEPT !.ctx = <<name>> \o @]

(***************************************************************************)
(* Bencode values and byte strings.                                        *)
(***************************************************************************)
BInt(n) == [k |-> "int", v |-> n]
BBytes(s) == [k |-> "bytes", v |-> s]
BList(l) == [k |-> "list", v |-> l]
BDict(d) == [k |-> "dict", v |-> d]
P(key, val) == [key |-> key, val |-> val]

Rep(b, n) == [i \in 1..n |-> b]

b_a == <<97>>
b_e == <<101>>
b_q == <<113>>
b_r == <<114>>
b_t == <<116>>
b_y == <<121>>
b_id == <<105, 100>>
b_target == <<116, 97, 114, 103, 101, 116>>
b_info_hash == <<105, 110, 102, 111, 95, 104, 97, 115, 104>>
b_implied_port == <<105, 109, 112, 108, 105, 101, 100, 95, 112, 111, 114, 116>>
b_port == <<112, 111, 114, 116>>
b_token == <<116, 111, 107, 101, 110>>
b_nodes == <<110, 111, 100, 101, 115>>
b_values == <<118, 97, 108, 117, 101, 115>>
b_ping == <<112, 105, 110, 103>>
b_find_node == <<102, 105, 110, 100, 95, 110, 111, 100, 101>>
b_get_peers == <<103, 101, 116, 95, 112, 101, 101, 114, 115>>
b_announce_peer == <<97, 110, 110, 111, 117, 110, 99, 101, 95, 112, 101, 101, 114>>

\* byte-wise lexicographic order of two byte strings
LexLess(a, b) ==
    \E i \in 1..(Len(a) + 1) :
        /\ i <= Len(b)
        /\ \A j \in 1..(i - 1) : a[j] = b[j]
        /\ (i = Len(a) + 1 \/ a[i] < b[i])

KeysOf(d) == [i \in 1..Len(d) |-> d[i].key]

StrictlySorted(keys) ==
    \A i \in 1..(Len(keys) - 1) : LexLess(keys[i], keys[i + 1])

RECURSIVE InsertPair(_, _)
InsertPair(p, d) ==
    IF d = <<>> THEN <<p>>
    ELSE IF LexLess(p.key, d[1].key) THEN <<p>> \o d
    ELSE <<d[1]>> \o InsertPair(p, Tail(d))

RECURSIVE SortPairs(_)
SortPairs(d) ==
    IF d = <<>> THEN <<>> ELSE InsertPair(d[1], SortPairs(Tail(d)))

\* encoder.emit_dict: the keys must arrive in increasing order
emit_dict(pairs) ==
    IF StrictlySorted(KeysOf(pairs)) THEN Ok(BDict(pairs)) ELSE unsorted_keys

\* a mutant of emit_unsorted_dict that writes the pairs as they were emitted
emit_unsorted_dict_asis(pairs) == Ok(BDict(pairs))

\* encoder.emit_unsorted_dict: the pairs are collected, then written sorted
emit_unsorted_dict(pairs) == Ok(BDict(SortPairs(pairs)))

\* a mutant of to_be_bytes that writes the low byte first
to_le_bytes(n) == <<n % 256, n \div 256>>

\* u16::to_be_bytes
to_be_bytes(n) == <<n \div 256, n % 256>>

\* a mutant of from_be_bytes that reads the low byte first
from_le_bytes(s) == s[1] + 256 * s[2]

\* u16::from_be_bytes
from_be_bytes(s) == 256 * s[1] + s[2]

\* `b as i64`, `b as u8`
BoolAsInt(b) == IF b THEN 1 ELSE 0

\* String::from_utf8 on the bytes of the model: ASCII bytes are single code
\* points, and the byte 0xFF occurs in no UTF-8 text.
IsUtf8(s) == \A i \in 1..Len(s) : s[i] < 128

(***************************************************************************)
(* Compact formats (src/lib.rs IntoBytes, src/raw.rs From<..> for [u8; N]) *)
(***************************************************************************)
\* a mutant of SocketAddrV4_into_bytes that writes the port before the octets
SocketAddrV4_into_bytes_portfirst(addr) == to_be_bytes(addr.port) \o addr.ip

SocketAddrV4_into_bytes(addr) == addr.ip \o to_be_bytes(addr.port)

Node_into_bytes(node) == node.id.bytes \o SocketAddrV4_into_bytes(node.addr)

\* a mutant of VecNode_into_bytes that writes the last node first
RECURSIVE VecNode_into_bytes_reversed(_)
VecNode_into_bytes_reversed(nodes) ==
    IF nodes = <<>> THEN <<>>
    ELSE VecNode_into_bytes_reversed(Tail(nodes)) \o Node_into_bytes(nodes[1])

RECURSIVE VecNode_into_bytes(_)
VecNode_into_bytes(nodes) ==
    IF nodes = <<>> THEN <<>>
    ELSE Node_into_bytes(nodes[1]) \o VecNode_into_bytes(Tail(nodes))

Hash_encode(h) == BBytes(h.bytes)

\* a mutant of OptPair that writes an empty string for an absent field
OptPair_placeholder(key, opt, val) ==
    <<P(key, IF opt.some THEN val ELSE BBytes(<<>>))>>

\* `if let Some(x) = &self.field { e.emit_pair(key, x)?; }`
OptPair(key, opt, val) == IF opt.some THEN <<P(key, val)>> ELSE <<>>

\* the `t` pair of both encoders: AsString(transaction_id.to_be_bytes())
EncT(id) == BBytes(to_be_bytes(id))

EncToken(t) == BBytes(t)
EncNodes(nodes) == BBytes(VecNode_into_bytes(nodes))
EncValues(values) ==
    BList([i \in 1..Len(values) |-> BBytes(SocketAddrV4_into_bytes(values[i]))])
EncBool(b) == BInt(BoolAsInt(b))
EncPort(p) == BInt(p)

(***************************************************************************)
(* Encoders of src/lib.rs.  A typed message is                             *)
(*   [transaction_id, payload], payload = [tag |-> "Ping", id |-> ..] etc. *)
(***************************************************************************)
LibPingEncode(p) == emit_dict(<<P(b_id, Hash_encode(p.id))>>)

LibFindNodeEncode(f) ==
    emit_dict(<<P(b_id, Hash_encode(f.id)), P(b_target, Hash_encode(f.target))>>)

LibGetPeersEncode(g) ==
    emit_dict(<<P(b_id, Hash_encode(g.id)), P(b_info_hash, Hash_encode(g.info_hash))>>)

LibAnnouncePeerEncode(a) ==
    emit_dict(<<P(b_id, Hash_encode(a.id))>>
              \o OptPair(b_implied_port, a.implied_port, EncBool(a.implied_port.val))
              \o <<P(b_info_hash, Hash_encode(a.info_hash)),
                   P(b_port, EncPort(a.port)),
                   P(b_token, EncToken(a.token))>>)

LibResponseEncode(r) ==
    emit_dict(<<P(b_id, Hash_encode(r.id))>>
              \o OptPair(b_nodes, r.nodes, EncNodes(r.nodes.val))
              \o OptPair(b_token, r.token, EncToken(r.token.val))
              \o OptPair(b_values, r.values, EncValues(r.values.val)))

\* emit_list: the code, then the message
ErrorEncode(e) == Ok(BList(<<BInt(e.code), BBytes(e.message)>>))

\* Payload::get_type
get_type(payload) ==
    IF payload.tag \in {"Ping", "FindNode", "GetPeers", "AnnouncePeer"} THEN "Query"
    ELSE IF payload.tag = "Response" THEN "Response"
    ELSE "Error"

\* a mutant of bencode_key that takes the byte of `y` for the payload key
bencode_key_y(type) ==
    IF type = "Query" THEN b_q ELSE IF type = "Response" THEN b_r ELSE b_e

\* PayloadType::bencode_key
bencode_key(type) ==
    IF type = "Query" THEN b_a ELSE IF type = "Response" THEN b_r ELSE b_e

\* impl ToBencode for PayloadType / for MessageType: the value of `y`
PayloadTypeEncode(type) ==
    BBytes(IF type = "Query" THEN b_q ELSE IF type = "Response" THEN b_r ELSE b_e)

\* Payload::query_name
query_name(payload) ==
    CASE payload.tag = "Ping" -> Some(b_ping)
      [] payload.tag = "FindNode" -> Some(b_find_node)
      [] payload.tag = "GetPeers" -> Some(b_get_peers)
      [] payload.tag = "AnnouncePeer" -> Some(b_announce_peer)
      [] OTHER -> None

\* impl ToBencode for Payload
LibPayloadEncode(payload) ==
    CASE payload.tag = "Ping" -> LibPingEncode(payload)
      [] payload.tag = "FindNode" -> LibFindNodeEncode(payload)
      [] payload.tag = "GetPeers" -> LibGetPeersEncode(payload)
      [] payload.tag = "AnnouncePeer" -> LibAnnouncePeerEncode(payload)
      [] payload.tag = "Response" -> LibResponseEncode(payload)
      [] OTHER -> ErrorEncode(payload)

\* impl ToBencode for Message (lib.rs): t, then q, then y, then the payload
LibMessageEncode(m) ==
    LET payload == LibPayloadEncode(m.payload)
        type == get_type(m.payload)
    IN  IF ~payload.ok THEN payload
        ELSE emit_unsorted_dict(
                 <<P(b_t, EncT(m.transaction_id))>>
                 \o OptPair(b_q, query_name(m.payload), BBytes(query_name(m.payload).val))
                 \o <<P(b_y, PayloadTypeEncode(type)),
                      P(bencode_key(type), payload.val)>>)

(***************************************************************************)
(* Encoders of src/raw.rs.  A flat message is                              *)
(*   [transaction_id, msg_type, query_type, query_args, response, error]   *)
(* with the last four optional.                                            *)
(***************************************************************************)
\* a QueryType encoder that writes every query as a ping
QueryTypeEncode_ping(q) == BBytes(b_ping)

\* impl ToBencode for QueryType
QueryTypeEncode(q) ==
    BBytes(CASE q = "Ping" -> b_ping
             [] q = "FindNone" -> b_find_node
             [] q = "GetPeers" -> b_get_peers
             [] OTHER -> b_announce_peer)

RawQueryArgsEncode(a) ==
    emit_dict(<<P(b_id, Hash_encode(a.sender_id))>>
              \o OptPair(b_implied_port, a.implied_port, EncBool(a.implied_port.val))
              \o OptPair(b_info_hash, a.info_hash, Hash_encode(a.info_hash.val))
              \o OptPair(b_port, a.port, EncPort(a.port.val))
              \o OptPair(b_target, a.target, Hash_encode(a.target.val))
              \o OptPair(b_token, a.token, EncToken(a.token.val)))

RawResponseEncode(r) ==
    emit_dict(<<P(b_id, Hash_encode(r.sender_id))>>
              \o OptPair(b_nodes, r.nodes, EncNodes(r.nodes.val))
              \o OptPair(b_token, r.token, EncToken(r.token.val))
              \o OptPair(b_values, r.values, EncValues(r.values.val)))

\* impl ToBencode for Message (raw.rs): a, e, q, r, t, y
RawMessageEncode(m) ==
    LET a == RawQueryArgsEncode(m.query_args.val)
        e == ErrorEncode(m.error.val)
        r == RawResponseEncode(m.response.val)
    IN  IF m.query_args.some /\ ~a.ok THEN a
        ELSE IF m.error.some /\ ~e.ok THEN e
        ELSE IF m.response.some /\ ~r.ok THEN r
        ELSE emit_dict(OptPair(b_a, m.query_args, a.val)
                       \o OptPair(b_e, m.error, e.val)
                       \o OptPair(b_q, m.query_type, QueryTypeEncode(m.query_type.val))
                       \o OptPair(b_r, m.response, r.val)
                       \o <<P(b_t, EncT(m.transaction_id)),
                            P(b_y, PayloadTypeEncode(m.msg_type))>>)

(***************************************************************************)
(* bendy's decoding primitives, as the codec calls them.                   *)
(***************************************************************************)
panic == Err("Panic", "")

try_into_bytes(object) == IF object.k = "bytes" THEN Ok(object.v) ELSE unexpected_token
try_into_integer(object) == IF object.k = "int" THEN Ok(object.v) ELSE unexpected_token
try_into_list(object) == IF object.k = "list" THEN Ok(object.v) ELSE unexpected_token
try_into_dictionary(object) == IF object.k = "dict" THEN Ok(object.v) ELSE unexpected_token

\* a mutant of parse_u16 that keeps the low 16 bits of an integer out of range
parse_u16_wrap(n) == Ok(n % 65536)

\* str::parse::<u8>, str::parse::<u16> of an integer token
parse_u8(n) == IF n \in 0..255 THEN Ok(n) ELSE malformed_content
parse_u16(n) == IF n \in 0..65535 THEN Ok(n) ELSE malformed_content

\* String::decode_bencode_object
String_decode(object) ==
    LET content == try_into_bytes(object)
    IN  IF ~content.ok THEN content
        ELSE IF ~IsUtf8(content.val) THEN malformed_content
        ELSE content

\* i64::decode_bencode_object
i64_decode(object) == try_into_integer(object)

\* a mutant of Skip that refuses a key it does not recognize
Skip_reject(acc) == Err("UnexpectedField", "")

\* `_ => continue`: a key outside the schema leaves the accumulator as it is
Skip(acc) == Ok(acc)

\* `x = res.map(Some)?` on one field of the accumulator
SetField(acc, name, res) ==
    IF res.ok THEN Ok([acc EXCEPT ![name] = Some(res.val)]) ELSE res

(***************************************************************************)
(* Primitive decoders.                                                     *)
(***************************************************************************)
\* impl FromBencode for Hash
Hash_decode(object) ==
    LET s == try_into_bytes(object)
    IN  IF ~s.ok THEN s
        ELSE IF Len(s.val) # HashLen THEN malformed_content
        ELSE Ok([bytes |-> s.val])

\* impl FromBytes for SocketAddrV4 / TryFrom<&[u8]> for SocketAddrV4Wrap
SocketAddrV4_from_bytes(bytes) ==
    IF Len(bytes) # AddrLen THEN malformed_content
    ELSE Ok([ip |-> SubSeq(bytes, 1, IpLen),
             port |-> from_be_bytes(SubSeq(bytes, IpLen + 1, AddrLen))])

\* impl From<[u8; 26]> for Node: split_at(20), the address unwrapped
Node_from(bytes) ==
    LET addr == SocketAddrV4_from_bytes(SubSeq(bytes, HashLen + 1, Len(bytes)))
    IN  IF ~addr.ok THEN panic
        ELSE Ok([id |-> [bytes |-> SubSeq(bytes, 1, HashLen)], addr |-> addr.val])

\* a mutant of Chunks that drops a last chunk shorter than 26 bytes
RECURSIVE Chunks_exact(_)
Chunks_exact(bytes) ==
    IF Len(bytes) < NodeLen THEN <<>>
    ELSE <<SubSeq(bytes, 1, NodeLen)>>
         \o Chunks_exact(SubSeq(bytes, NodeLen + 1, Len(bytes)))

\* slice::chunks(26)
RECURSIVE Chunks(_)
Chunks(bytes) ==
    IF bytes = <<>> THEN <<>>
    ELSE IF Len(bytes) <= NodeLen THEN <<bytes>>
    ELSE <<SubSeq(bytes, 1, NodeLen)>> \o Chunks(SubSeq(bytes, NodeLen + 1, Len(bytes)))

\* a mutant of VecNode_from_bytes that converts a chunk without testing its
\* length
VecNode_from_bytes_unchecked(bytes) ==
    LET chunks == Chunks(bytes)
        f[i \in 0..Len(chunks)] ==
            IF i = 0 THEN Ok(<<>>)
            ELSE IF ~f[i - 1].ok THEN f[i - 1]
            ELSE LET node == Node_from(chunks[i])
                 IN  IF node.ok THEN Ok(Append(f[i - 1].val, node.val)) ELSE node
    IN  f[Len(chunks)]

\* impl FromBytes for Vec<Node> / FromBencode for VecNodeWrap, on the bytes
VecNode_from_bytes(bytes) ==
    LET chunks == Chunks(bytes)
        f[i \in 0..Len(chunks)] ==
            IF i = 0 THEN Ok(<<>>)
            ELSE IF ~f[i - 1].ok THEN f[i - 1]
            ELSE IF Len(chunks[i]) # NodeLen THEN malformed_content
            ELSE LET node == Node_from(chunks[i])
                 IN  IF node.ok THEN Ok(Append(f[i - 1].val, node.val)) ELSE node
    IN  f[Len(chunks)]

\* impl FromBencode for VecSockaddrV4Wrap / for Vec<SocketAddrV4Wrap>
VecSockaddr_decode(object) ==
    LET list == try_into_list(object)
        f[i \in 0..Len(list.val)] ==
            IF i = 0 THEN Ok(<<>>)
            ELSE IF ~f[i - 1].ok THEN f[i - 1]
            ELSE LET bytes == try_into_bytes(list.val[i])
                     addr == SocketAddrV4_from_bytes(bytes.val)
                 IN  IF ~bytes.ok THEN bytes
                     ELSE IF ~addr.ok THEN addr
                     ELSE Ok(Append(f[i - 1].val, addr.val))
    IN  IF ~list.ok THEN list ELSE f[Len(list.val)]

\* the `e` list: code, then message; `second` names the missing second element
ErrorDecode(object, second) ==
    LET list == try_into_list(object)
    IN  IF ~list.ok THEN list
        ELSE IF Len(list.val) < 1 THEN missing_field("code")
        ELSE LET code == i64_decode(list.val[1])
             IN  IF ~code.ok THEN code
                 ELSE IF Len(list.val) < 2 THEN missing_field(second)
                 ELSE LET message == String_decode(list.val[2])
                      IN  IF ~message.ok THEN message
                          ELSE Ok([code |-> code.val, message |-> message.val])

\* impl FromBencode for Error (lib.rs)
LibErrorDecode(object) == ErrorDecode(object, "code")

\* impl FromBencode for Error (raw.rs)
RawErrorDecode(object) == ErrorDecode(object, "message")

(***************************************************************************)
(* Decoders of src/lib.rs.                                                 *)
(***************************************************************************)
\* one pair of the `a` dictionary (lib.rs, impl FromBencode for A)
LibAStep(acc, pair) ==
    CASE pair.key = b_id ->
            SetField(acc, "id", context(Hash_decode(pair.val), "y"))
      [] pair.key = b_target ->
            SetField(acc, "target", context(Hash_decode(pair.val), "target"))
      [] pair.key = b_info_hash ->
            SetField(acc, "info_hash", context(Hash_decode(pair.val), "info_hash"))
      [] pair.key = b_implied_port ->
            LET i == context(try_into_integer(pair.val), "implied_port")
                n == parse_u8(i.val)
            IN  IF ~i.ok THEN i
                ELSE IF ~n.ok THEN n
                ELSE SetField(acc, "implied_port", Ok(n.val > 0))
      [] pair.key = b_port ->
            LET i == context(try_into_integer(pair.val), "port")
            IN  IF ~i.ok THEN i ELSE SetField(acc, "port", parse_u16(i.val))
      [] pair.key = b_token ->
            SetField(acc, "token", context(try_into_bytes(pair.val), "token"))
      [] OTHER -> Skip(acc)

ANone ==
    [id |-> None, target |-> None, info_hash |-> None, implied_port |-> None,
     port |-> None, token |-> None]

\* the `while let Some(pair) = dict.next_pair()?` loop of A (lib.rs): the first
\* failing pair ends it
LibAWalk(d) ==
    LET f[i \in 0..Len(d)] ==
            IF i = 0 THEN Ok(ANone)
            ELSE IF ~f[i - 1].ok THEN f[i - 1]
            ELSE LibAStep(f[i - 1].val, d[i])
    IN  f[Len(d)]

\* impl FromBencode for A
LibADecode(object) ==
    LET dict == try_into_dictionary(object)
        walk == LibAWalk(dict.val)
    IN  IF ~dict.ok THEN dict
        ELSE IF ~walk.ok THEN walk
        ELSE IF ~walk.val.id.some THEN missing_field("id")
        ELSE Ok([walk.val EXCEPT !.id = @.val])

\* one pair of the `r` dictionary (lib.rs, impl FromBencode for Response)
LibResponseStep(acc, pair) ==
    CASE pair.key = b_id ->
            SetField(acc, "id", context(Hash_decode(pair.val), "y"))
      [] pair.key = b_nodes ->
            LET bytes == context(try_into_bytes(pair.val), "nodes")
            IN  IF ~bytes.ok THEN bytes
                ELSE SetField(acc, "nodes", VecNode_from_bytes(bytes.val))
      [] pair.key = b_values ->
            SetField(acc, "values", context(VecSockaddr_decode(pair.val), "values"))
      [] pair.key = b_token ->
            SetField(acc, "token", context(try_into_bytes(pair.val), "token"))
      [] OTHER -> Skip(acc)

ResponseNone == [id |-> None, nodes |-> None, values |-> None, token |-> None]

\* the `while let Some(pair) = dict.next_pair()?` loop of Response (lib.rs): the first
\* failing pair ends it
LibResponseWalk(d) ==
    LET f[i \in 0..Len(d)] ==
            IF i = 0 THEN Ok(ResponseNone)
            ELSE IF ~f[i - 1].ok THEN f[i - 1]
            ELSE LibResponseStep(f[i - 1].val, d[i])
    IN  f[Len(d)]

\* impl FromBencode for Response (lib.rs)
LibResponseDecode(object) ==
    LET dict == try_into_dictionary(object)
        walk == LibResponseWalk(dict.val)
    IN  IF ~dict.ok THEN dict
        ELSE IF ~walk.ok THEN walk
        ELSE IF ~walk.val.id.some THEN missing_field("id")
        ELSE Ok([tag |-> "Response", id |-> walk.val.id.val, nodes |-> walk.val.nodes,
                 values |-> walk.val.values, token |-> walk.val.token])

\* impl From<A> for Ping
PingFrom(a) == Ok([tag |-> "Ping", id |-> a.id])

\* impl TryFrom<A> for FindNode
FindNodeTryFrom(a) ==
    IF ~a.target.some THEN missing_field("target")
    ELSE Ok([tag |-> "FindNode", id |-> a.id, target |-> a.target.val])

\* impl TryFrom<A> for GetPeers
GetPeersTryFrom(a) ==
    IF ~a.info_hash.some THEN missing_field("info_hash")
    ELSE Ok([tag |-> "GetPeers", id |-> a.id, info_hash |-> a.info_hash.val])

\* impl TryFrom<A> for AnnouncePeer
AnnouncePeerTryFrom(a) ==
    IF ~a.info_hash.some THEN missing_field("info_hash")
    ELSE IF ~a.port.some THEN missing_field("port")
    ELSE IF ~a.token.some THEN missing_field("token")
    ELSE Ok([tag |-> "AnnouncePeer", id |-> a.id, implied_port |-> a.implied_port,
             info_hash |-> a.info_hash.val, port |-> a.port.val,
             token |-> a.token.val])

\* a mutant of LibTransactionIdDecode that reads the first two bytes of a
\* longer string
LibTransactionIdDecode_prefix(object) ==
    LET bytes == try_into_bytes(object)
    IN  IF ~bytes.ok THEN bytes
        ELSE IF Len(bytes.val) < TidLen THEN malformed_content
        ELSE Ok(from_be_bytes(bytes.val))

\* the value of `t` (lib.rs:657-664): exactly two bytes, big-endian
LibTransactionIdDecode(object) ==
    LET bytes == try_into_bytes(object)
    IN  IF ~bytes.ok THEN bytes
        ELSE IF Len(bytes.val) # TidLen THEN malformed_content
        ELSE Ok(from_be_bytes(bytes.val))

\* one pair of the top-level dictionary (lib.rs, impl FromBencode for Message)
LibMessageStep(acc, pair) ==
    CASE pair.key = b_t ->
            SetField(acc, "transaction_id", LibTransactionIdDecode(pair.val))
      [] pair.key = b_y ->
            SetField(acc, "msg_type", context(String_decode(pair.val), "y"))
      [] pair.key = b_q ->
            SetField(acc, "query_type", context(String_decode(pair.val), "q"))
      [] pair.key = b_a ->
            SetField(acc, "a", context(LibADecode(pair.val), "y"))
      [] pair.key = b_r ->
            SetField(acc, "r", context(LibResponseDecode(pair.val), "r"))
      [] pair.key = b_e ->
            SetField(acc, "e", context(LibErrorDecode(pair.val), "e"))
      [] OTHER -> Skip(acc)

MessageNone ==
    [transaction_id |-> None, msg_type |-> None, query_type |-> None,
     a |-> None, r |-> None, e |-> None]

\* a mutant of LibMessageWalk that goes on after a failing pair and returns
\* the last failure
LibMessageWalk_last(d) ==
    LET f[i \in 0..Len(d)] ==
            IF i = 0 THEN Ok(MessageNone)
            ELSE LET acc == IF f[i - 1].ok THEN f[i - 1].val ELSE MessageNone
                     res == LibMessageStep(acc, d[i])
                 IN  IF res.ok /\ ~f[i - 1].ok THEN f[i - 1] ELSE res
    IN  f[Len(d)]

\* the `while let Some(pair) = dict.next_pair()?` loop of Message (lib.rs): the first
\* failing pair ends it
LibMessageWalk(d) ==
    LET f[i \in 0..Len(d)] ==
            IF i = 0 THEN Ok(MessageNone)
            ELSE IF ~f[i - 1].ok THEN f[i - 1]
            ELSE LibMessageStep(f[i - 1].val, d[i])
    IN  f[Len(d)]

\* the dispatch on the query name (lib.rs:697-707)
LibQueryDispatch(query_type, a) ==
    CASE query_type = b_ping -> PingFrom(a)
      [] query_type = b_find_node -> FindNodeTryFrom(a)
      [] query_type = b_get_peers -> GetPeersTryFrom(a)
      [] query_type = b_announce_peer -> AnnouncePeerTryFrom(a)
      [] OTHER -> malformed_content

\* the dispatch on `y` (lib.rs:693-716)
LibPayload(msg_type, acc) ==
    CASE msg_type = b_q ->
            IF ~acc.query_type.some THEN missing_field("q")
            ELSE IF ~acc.a.some THEN missing_field("a")
            ELSE LibQueryDispatch(acc.query_type.val, acc.a.val)
      [] msg_type = b_r ->
            IF ~acc.r.some THEN missing_field("e") ELSE Ok(acc.r.val)
      [] msg_type = b_e ->
            IF ~acc.e.some THEN missing_field("e")
            ELSE Ok([tag |-> "Error", code |-> acc.e.val.code,
                     message |-> acc.e.val.message])
      [] OTHER -> malformed_content

\* a mutant of RequireTY that looks for `y` before `t`
RequireTY_yfirst(acc) ==
    IF ~acc.msg_type.some THEN missing_field("y")
    ELSE IF ~acc.transaction_id.some THEN missing_field("t")
    ELSE Ok(acc)

\* after the walk: `t` must have been seen, then `y` (lib.rs:690-691,
\* raw.rs:546-547)
RequireTY(acc) ==
    IF ~acc.transaction_id.some THEN missing_field("t")
    ELSE IF ~acc.msg_type.some THEN missing_field("y")
    ELSE Ok(acc)

\* impl FromBencode for Message (lib.rs)
LibMessageDecode(object) ==
    LET dict == try_into_dictionary(object)
        walk == LibMessageWalk(dict.val)
        acc == walk.val
        payload == LibPayload(acc.msg_type.val, acc)
    IN  IF ~dict.ok THEN dict
        ELSE IF ~walk.ok THEN walk
        ELSE IF ~RequireTY(acc).ok THEN RequireTY(acc)
        ELSE IF ~payload.ok THEN payload
        ELSE Ok([transaction_id |-> acc.transaction_id.val, payload |-> payload.val])

(***************************************************************************)
(* Decoders of src/raw.rs.                                                 *)
(***************************************************************************)
\* impl FromBencode for MessageType
MessageType_decode(object) ==
    LET s == try_into_bytes(object)
    IN  IF ~s.ok THEN s
        ELSE CASE s.val = b_q -> Ok("Query")
               [] s.val = b_r -> Ok("Response")
               [] s.val = b_e -> Ok("Error")
               [] OTHER -> malformed_content

\* a mutant of QueryType_decode that takes an unknown name for a ping
QueryType_decode_lenient(object) ==
    LET s == try_into_bytes(object)
    IN  IF ~s.ok THEN s
        ELSE CASE s.val = b_find_node -> Ok("FindNone")
               [] s.val = b_get_peers -> Ok("GetPeers")
               [] s.val = b_announce_peer -> Ok("AnnouncePeer")
               [] OTHER -> Ok("Ping")

\* impl FromBencode for QueryType
QueryType_decode(object) ==
    LET s == try_into_bytes(object)
    IN  IF ~s.ok THEN s
        ELSE CASE s.val = b_ping -> Ok("Ping")
               [] s.val = b_find_node -> Ok("FindNone")
               [] s.val = b_get_peers -> Ok("GetPeers")
               [] s.val = b_announce_peer -> Ok("AnnouncePeer")
               [] OTHER -> malformed_content

\* one pair of the `a` dictionary (raw.rs, impl FromBencode for QueryArgs)
RawQueryArgsStep(acc, pair) ==
    CASE pair.key = b_id ->
            SetField(acc, "sender_id", context(Hash_decode(pair.val), "id"))
      [] pair.key = b_implied_port ->
            LET i == context(try_into_integer(pair.val), "implied_port")
            IN  IF ~i.ok THEN i ELSE SetField(acc, "implied_port", Ok(i.val = 1))
      [] pair.key = b_info_hash ->
            SetField(acc, "info_hash", context(Hash_decode(pair.val), "info_hash"))
      [] pair.key = b_port ->
            LET i == context(try_into_integer(pair.val), "port")
            IN  IF ~i.ok THEN i ELSE SetField(acc, "port", parse_u16(i.val))
      [] pair.key = b_target ->
            SetField(acc, "target", context(Hash_decode(pair.val), "target"))
      [] pair.key = b_token ->
            SetField(acc, "token", context(try_into_bytes(pair.val), "token"))
      [] OTHER -> Skip(acc)

QueryArgsNone ==
    [sender_id |-> None, target |-> None, info_hash |-> None,
     implied_port |-> None, port |-> None, token |-> None]

\* the `while let Some(pair) = dict.next_pair()?` loop of QueryArgs (raw.rs): the first
\* failing pair ends it
RawQueryArgsWalk(d) ==
    LET f[i \in 0..Len(d)] ==
            IF i = 0 THEN Ok(QueryArgsNone)
            ELSE IF ~f[i - 1].ok THEN f[i - 1]
            ELSE RawQueryArgsStep(f[i - 1].val, d[i])
    IN  f[Len(d)]

\* impl FromBencode for QueryArgs
RawQueryArgsDecode(object) ==
    LET dict == try_into_dictionary(object)
        walk == RawQueryArgsWalk(dict.val)
    IN  IF ~dict.ok THEN dict
        ELSE IF ~walk.ok THEN walk
        ELSE IF ~walk.val.sender_id.some THEN missing_field("sender_id")
        ELSE Ok([walk.val EXCEPT !.sender_id = @.val])

\* impl FromBencode for VecNodeWrap<Vec<Node>>
VecNodeWrap_decode(object) ==
    LET bytes == try_into_bytes(object)
    IN  IF ~bytes.ok THEN bytes ELSE VecNode_from_bytes(bytes.val)

\* one pair of the `r` dictionary (raw.rs, impl FromBencode for Response)
RawResponseStep(acc, pair) ==
    CASE pair.key = b_id ->
            SetField(acc, "sender_id", context(Hash_decode(pair.val), "id"))
      [] pair.key = b_nodes ->
            SetField(acc, "nodes", context(VecNodeWrap_decode(pair.val), "nodes"))
      [] pair.key = b_values ->
            SetField(acc, "values", context(VecSockaddr_decode(pair.val), "values"))
      [] pair.key = b_token ->
            SetField(acc, "token", context(try_into_bytes(pair.val), "token"))
      [] OTHER -> Skip(acc)

RawResponseNone ==
    [sender_id |-> None, nodes |-> None, values |-> None, token |-> None]

\* the `while let Some(pair) = dict.next_pair()?` loop of Response (raw.rs): the first
\* failing pair ends it
RawResponseWalk(d) ==
    LET f[i \in 0..Len(d)] ==
            IF i = 0 THEN Ok(RawResponseNone)
            ELSE IF ~f[i - 1].ok THEN f[i - 1]
            ELSE RawResponseStep(f[i - 1].val, d[i])
    IN  f[Len(d)]

\* impl FromBencode for Response (raw.rs)
RawResponseDecode(object) ==
    LET dict == try_into_dictionary(object)
        walk == RawResponseWalk(dict.val)
    IN  IF ~dict.ok THEN dict
        ELSE IF ~walk.ok THEN walk
        ELSE IF ~walk.val.sender_id.some THEN missing_field("sender_id")
        ELSE Ok([walk.val EXCEPT !.sender_id = @.val])

\* the value of `t` (raw.rs:511-519): exactly two bytes, big-endian
RawTransactionIdDecode(object) ==
    LET bytes == context(try_into_bytes(object), "t")
    IN  IF ~bytes.ok THEN bytes
        ELSE IF Len(bytes.val) # TidLen THEN malformed_content
        ELSE Ok(from_be_bytes(bytes.val))

\* one pair of the top-level dictionary (raw.rs, impl FromBencode for Message)
RawMessageStep(acc, pair) ==
    CASE pair.key = b_t ->
            SetField(acc, "transaction_id", RawTransactionIdDecode(pair.val))
      [] pair.key = b_y ->
            SetField(acc, "msg_type", context(MessageType_decode(pair.val), "y"))
      [] pair.key = b_q ->
            SetField(acc, "query_type", context(QueryType_decode(pair.val), "q"))
      [] pair.key = b_a ->
            SetField(acc, "query_args", context(RawQueryArgsDecode(pair.val), "a"))
      [] pair.key = b_r ->
            SetField(acc, "response", context(RawResponseDecode(pair.val), "r"))
      [] pair.key = b_e ->
            SetField(acc, "error", context(RawErrorDecode(pair.val), "e"))
      [] OTHER -> Skip(acc)

RawMessageNone ==
    [transaction_id |-> None, msg_type |-> None, query_type |-> None,
     query_args |-> None, response |-> None, error |-> None]

\* the `while let Some(pair) = dict.next_pair()?` loop of Message (raw.rs): the first
\* failing pair ends it
RawMessageWalk(d) ==
    LET f[i \in 0..Len(d)] ==
            IF i = 0 THEN Ok(RawMessageNone)
            ELSE IF ~f[i - 1].ok THEN f[i - 1]
            ELSE RawMessageStep(f[i - 1].val, d[i])
    IN  f[Len(d)]

\* impl FromBencode for Message (raw.rs)
RawMessageDecode(object) ==
    LET dict == try_into_dictionary(object)
        walk == RawMessageWalk(dict.val)
        acc == walk.val
    IN  IF ~dict.ok THEN dict
        ELSE IF ~walk.ok THEN walk
        ELSE IF ~RequireTY(acc).ok THEN RequireTY(acc)
        ELSE Ok([acc EXCEPT !.transaction_id = @.val, !.msg_type = @.val])

(***************************************************************************)
(* The codec as a state machine: a datum (a typed message of lib.rs, a     *)
(* flat message of raw.rs, or a bencode value on the wire) is handed to    *)
(* one codec operation after another.  src is the datum first handed in,   *)
(* cur the present one, trace the operations applied so far.               *)
(***************************************************************************)
Datum(form, val) == [form |-> form, val |-> val]

\* the outcome of an operation as the next datum
Outcome(res, form) == IF res.ok THEN Datum(form, res.val) ELSE Datum("err", res)

LibEncode ==
    /\ Len(trace) < MaxOps
    /\ cur.form = "lib"
    /\ cur' = Outcome(LibMessageEncode(cur.val), "wire")
    /\ trace' = Append(trace, "LibEncode")
    /\ UNCHANGED src

RawEncode ==
    /\ Len(trace) < MaxOps
    /\ cur.form = "raw"
    /\ cur' = Outcome(RawMessageEncode(cur.val), "wire")
    /\ trace' = Append(trace, "RawEncode")
    /\ UNCHANGED src

LibDecode ==
    /\ Len(trace) < MaxOps
    /\ cur.form = "wire"
    /\ cur' = Outcome(LibMessageDecode(cur.val), "lib")
    /\ trace' = Append(trace, "LibDecode")
    /\ UNCHANGED src

RawDecode ==
    /\ Len(trace) < MaxOps
    /\ cur.form = "wire"
    /\ cur' = Outcome(RawMessageDecode(cur.val), "raw")
    /\ trace' = Append(trace, "RawDecode")
    /\ UNCHANGED src

Next == LibEncode \/ RawEncode \/ LibDecode \/ RawDecode

(***************************************************************************)
(* Generated messages.                                                     *)
(***************************************************************************)
SeqsUpTo(S, n) == UNION {[1..k -> S] : k \in 0..n}
Opt(S) == {None} \cup {Some(x) : x \in S}

HashA == [bytes |-> Rep(97, HashLen)]
HashB == [bytes |-> [i \in 1..HashLen |-> 100 + i]]
Addr1 == [ip |-> <<65, 66, 67, 68>>, port |-> 24930]
Addr2 == [ip |-> <<127, 0, 0, 1>>, port |-> 255]
Node1 == [id |-> HashB, addr |-> Addr1]
Node2 == [id |-> HashA, addr |-> Addr2]
Tok == <<116, 0, 255>>

Tids == {0, 255, 256, 24930, 65535}
Tokens == {<<>>, Tok}

LibPayloads ==
    {[tag |-> "Ping", id |-> id] : id \in {HashA, HashB}}
    \cup {[tag |-> "FindNode", id |-> id, target |-> h] : id, h \in {HashA, HashB}}
    \cup {[tag |-> "GetPeers", id |-> id, info_hash |-> h] : id, h \in {HashA, HashB}}
    \cup {[tag |-> "AnnouncePeer", id |-> HashA, implied_port |-> ip, info_hash |-> HashB,
           port |-> port, token |-> token] :
             ip \in Opt(BOOLEAN), port \in {0, 6881, 65535}, token \in Tokens}
    \cup {[tag |-> "Response", id |-> HashB, nodes |-> nodes, values |-> values,
           token |-> token] :
             nodes \in Opt(SeqsUpTo({Node1, Node2}, MaxNodes)),
             values \in Opt(SeqsUpTo({Addr1, Addr2}, MaxNodes)),
             token \in Opt(Tokens)}
    \cup {[tag |-> "Error", code |-> code, message |-> message] :
             code \in {-1, 0, 201}, message \in {<<>>, <<65, 32, 71>>}}

LibMessages ==
    {[transaction_id |-> t, payload |-> p] : t \in Tids, p \in LibPayloads}

\* the query type of raw.rs for a payload of lib.rs
RawQueryType(tag) == IF tag = "FindNode" THEN "FindNone" ELSE tag

\* the flat message of raw.rs that stands for a typed message of lib.rs
Flat(m) ==
    LET p == m.payload
        type == get_type(p)
        field(name) == IF name \in DOMAIN p THEN Some(p[name]) ELSE None
    IN  [transaction_id |-> m.transaction_id,
         msg_type |-> type,
         query_type |-> IF type = "Query" THEN Some(RawQueryType(p.tag)) ELSE None,
         query_args |->
             IF type = "Query"
             THEN Some([sender_id |-> p.id, target |-> field("target"),
                        info_hash |-> field("info_hash"),
                        implied_port |-> IF p.tag = "AnnouncePeer"
                                         THEN p.implied_port ELSE None,
                        port |-> field("port"), token |-> field("token")])
             ELSE None,
         response |->
             IF type = "Response"
             THEN Some([sender_id |-> p.id, nodes |-> p.nodes, values |-> p.values,
                        token |-> p.token])
             ELSE None,
         error |->
             IF type = "Error"
             THEN Some([code |-> p.code, message |-> p.message])
             ELSE None]

RawMessages == {Flat(m) : m \in LibMessages}

InitMsg ==
    /\ src \in {Datum("lib", m) : m \in LibMessages}
               \cup {Datum("raw", m) : m \in RawMessages}
    /\ cur = src
    /\ trace = <<>>

\* every valid message, through either codec
SpecEnc == InitMsg /\ [][Next]_vars

(***************************************************************************)
(* Generated wire inputs.                                                  *)
(***************************************************************************)
\* a dictionary of the pairs whose value is present
MkDict(fields) ==
    LET present == SelectSeq(fields, LAMBDA p : p.val.some)
    IN  BDict([i \in 1..Len(present) |-> P(present[i].key, present[i].val.val)])

Reverse(s) == [i \in 1..Len(s) |-> s[Len(s) + 1 - i]]

RECURSIVE Concat(_)
Concat(ss) == IF ss = <<>> THEN <<>> ELSE ss[1] \o Concat(Tail(ss))

\* a key outside the schema (the client-version key `v` of later extensions)
b_v == <<118>>

WHashA == BBytes(HashA.bytes)
WHashB == BBytes(HashB.bytes)
WTid == BBytes(<<97, 98>>)
WTok == BBytes(Tok)
WAddr1 == <<65, 66, 67, 68, 97, 98>>
WAddr2 == <<127, 0, 0, 1, 0, 255>>
WNode1 == HashB.bytes \o WAddr1
WNode2 == HashA.bytes \o WAddr2

\* values of every bencode kind for a key outside the schema
UnknownVals ==
    {BInt(7), BBytes(<<120>>), BList(<<BInt(1), BBytes(<<>>)>>),
     BDict(<<P(b_id, BInt(1))>>)}

WQueryNames ==
    {BBytes(b_ping), BBytes(b_find_node), BBytes(b_get_peers), BBytes(b_announce_peer)}

\* an `a` dictionary that satisfies every query kind
FullA ==
    BDict(<<P(b_id, WHashA), P(b_info_hash, WHashB), P(b_port, BInt(6881)),
            P(b_target, WHashB), P(b_token, WTok)>>)

GoodR == BDict(<<P(b_id, WHashB), P(b_token, WTok)>>)
GoodE == BList(<<BInt(201), BBytes(<<65, 32, 71>>)>>)

\* the envelope: every combination of presence and shape of the top-level keys
EnvelopeDicts ==
    {MkDict(<<P(b_a, a), P(b_e, e), P(b_q, q), P(b_r, r), P(b_t, t), P(b_v, x), P(b_y, y)>>) :
        a \in {None, Some(FullA), Some(BDict(<<>>))},
        e \in {None, Some(GoodE), Some(BList(<<>>))},
        q \in {None, Some(BBytes(b_ping)), Some(BBytes(b_find_node)),
               Some(BBytes(b_announce_peer)), Some(BBytes(<<112, 111, 110, 103>>))},
        r \in {None, Some(GoodR), Some(BInt(0))},
        t \in {None, Some(WTid), Some(BBytes(<<97>>))},
        x \in {None, Some(BInt(7))},
        y \in {None, Some(BBytes(b_q)), Some(BBytes(b_r)), Some(BBytes(b_e)),
               Some(BBytes(<<120>>)), Some(BBytes(<<255>>))}}

\* the `a` dictionary: every combination of presence of its keys
ArgsDicts ==
    {MkDict(<<P(b_id, id), P(b_implied_port, ip), P(b_info_hash, ih), P(b_port, port),
              P(b_target, target), P(b_token, token), P(b_v, x)>>) :
        id \in {None, Some(WHashA)},
        ip \in {None, Some(BInt(0)), Some(BInt(1)), Some(BInt(2))},
        ih \in {None, Some(WHashB)},
        port \in {None, Some(BInt(6881))},
        target \in {None, Some(WHashB)},
        token \in {None, Some(BBytes(<<>>)), Some(WTok)},
        x \in {None, Some(BInt(7))}}

QueryDicts ==
    {BDict(<<P(b_a, a), P(b_q, q), P(b_t, WTid), P(b_y, BBytes(b_q))>>) :
        a \in ArgsDicts, q \in WQueryNames}

WNodeStrings ==
    {BBytes(Concat(ns)) : ns \in SeqsUpTo({WNode1, WNode2}, MaxNodes)}
    \cup {BBytes(SubSeq(WNode1, 1, NodeLen - 1)), BBytes(WNode1 \o <<0>>)}

WValueLists ==
    {BList([i \in 1..Len(vs) |-> BBytes(vs[i])]) :
        vs \in SeqsUpTo({WAddr1, WAddr2}, MaxNodes)}
    \cup {BList(<<BBytes(SubSeq(WAddr1, 1, AddrLen - 1))>>)}

\* the `r` dictionary
ResponseDicts ==
    {BDict(<<P(b_r, MkDict(<<P(b_id, id), P(b_nodes, nodes), P(b_token, token),
                              P(b_v, x), P(b_values, values)>>)),
             P(b_t, WTid), P(b_y, BBytes(b_r))>>) :
        id \in {None, Some(WHashB), Some(BBytes(Rep(97, HashLen - 1)))},
        nodes \in Opt(WNodeStrings),
        token \in {None, Some(WTok)},
        x \in {None, Some(BInt(7))},
        values \in Opt(WValueLists)}

\* the `e` list
ErrorDicts ==
    {BDict(<<P(b_e, e), P(b_t, WTid), P(b_y, BBytes(b_e))>>) :
        e \in {BList(<<>>), BList(<<BInt(201)>>), GoodE,
               BList(<<BBytes(<<65>>), BInt(201)>>),
               BList(<<BInt(-1), BBytes(<<>>), BInt(0)>>),
               BList(<<BInt(0), BBytes(<<255>>)>>), BBytes(<<65>>)}}

\* a well-formed message of each kind, with one key outside the schema added
\* to the envelope, to `a` or to `r`
UnknownKeyDicts ==
    LET with(d, key, val) == BDict(SortPairs(Append(d.v, P(key, val))))
        env(p, q) == <<p, P(b_t, WTid), P(b_y, BBytes(q))>>
    IN  {with(BDict(env(P(b_a, FullA), b_q) \o <<P(b_q, q)>>), b_v, u) :
            q \in WQueryNames, u \in UnknownVals}
        \cup {BDict(SortPairs(env(P(b_a, with(FullA, k, u)), b_q) \o <<P(b_q, q)>>)) :
                q \in WQueryNames, k \in {b_v, b_nodes}, u \in UnknownVals}
        \cup {with(BDict(env(P(b_r, GoodR), b_r)), b_v, u) : u \in UnknownVals}
        \cup {BDict(env(P(b_r, with(GoodR, k, u)), b_r)) :
                k \in {b_v, b_target}, u \in UnknownVals}
        \cup {with(BDict(env(P(b_e, GoodE), b_e)), b_v, u) : u \in UnknownVals}

\* the envelope again, its keys in the opposite order
ReversedDicts == {BDict(Reverse(d.v)) : d \in {e \in EnvelopeDicts : Len(e.v) <= 4}}

\* the input with the value of one top-level key replaced
Replaced(w, key, val) ==
    BDict([i \in 1..Len(w.v) |-> IF w.v[i].key = key THEN P(key, val) ELSE w.v[i]])

\* a well-formed message of each kind carrying every key of its schema
AllA ==
    BDict(<<P(b_id, WHashA), P(b_implied_port, BInt(1)), P(b_info_hash, WHashB),
            P(b_port, BInt(6881)), P(b_target, WHashB), P(b_token, WTok)>>)
AllR ==
    BDict(<<P(b_id, WHashB), P(b_nodes, BBytes(WNode1 \o WNode2)), P(b_token, WTok),
            P(b_values, BList(<<BBytes(WAddr1), BBytes(WAddr2)>>))>>)
BaseDicts ==
    {BDict(<<P(b_a, AllA), P(b_q, q), P(b_t, WTid), P(b_y, BBytes(b_q))>>) :
        q \in WQueryNames}
    \cup {BDict(<<P(b_r, AllR), P(b_t, WTid), P(b_y, BBytes(b_r))>>),
          BDict(<<P(b_e, GoodE), P(b_t, WTid), P(b_y, BBytes(b_e))>>)}

\* values of every kind, length and nesting that a remote peer may put under
\* a key
BadVals ==
    {BInt(0), BInt(-1), BInt(65536), BBytes(<<>>), BBytes(<<255>>),
     BBytes(Rep(97, HashLen + 1)), BBytes(Rep(0, NodeLen + AddrLen)),
     BList(<<>>), BList(<<BInt(1)>>), BList(<<BBytes(<<1>>)>>),
     BList(<<BList(<<>>), BDict(<<>>)>>),
     BDict(<<>>), BDict(<<P(b_id, BInt(1))>>),
     BDict(<<P(b_id, WHashA), P(b_nodes, BBytes(<<1>>))>>)}

\* the input with the value of one key of a nested dictionary replaced
ReplacedIn(w, outer, key, val) ==
    BDict([i \in 1..Len(w.v) |->
              IF w.v[i].key = outer /\ w.v[i].val.k = "dict"
              THEN P(outer, Replaced(w.v[i].val, key, val))
              ELSE w.v[i]])

\* a well-formed message with the value of one key, at top level or in `a`
\* or `r`, replaced by a value of another kind or length
FaultDicts ==
    {Replaced(w, key, val) :
        w \in BaseDicts, key \in {b_a, b_e, b_q, b_r, b_t, b_y}, val \in BadVals}
    \cup {ReplacedIn(w, b_a, key, val) :
            w \in BaseDicts, val \in BadVals,
            key \in {b_id, b_implied_port, b_info_hash, b_port, b_target, b_token}}
    \cup {ReplacedIn(w, b_r, key, val) :
            w \in BaseDicts, val \in BadVals,
            key \in {b_id, b_nodes, b_token, b_values}}

\* ports at and beyond both ends of the u16 range
WPorts == {-65536, -1, 0, 1, 255, 256, 6881, 65535, 65536, 70000}

PortDicts == {ReplacedIn(w, b_a, b_port, BInt(n)) : w \in BaseDicts, n \in WPorts}

\* transaction ids of every length from none to three bytes
WTidStrings ==
    {<<>>, <<0>>, <<255>>, <<0, 0>>, <<0, 255>>, <<1, 0>>, <<255, 255>>,
     <<97, 98, 99>>, <<0, 0, 0>>}

TidDicts == {Replaced(w, b_t, BBytes(s)) : w \in BaseDicts, s \in WTidStrings}

\* a query whose `a` holds two or three values that fail, in both orders
TwoFaultDicts ==
    LET shortId == P(b_id, BBytes(Rep(97, HashLen - 1)))
        bigPort == P(b_port, BInt(65536))
        intToken == P(b_token, BInt(1))
        query(a) == BDict(<<P(b_a, BDict(a)), P(b_q, BBytes(b_announce_peer)),
                            P(b_t, WTid), P(b_y, BBytes(b_q))>>)
    IN  {query(a) : a \in {<<shortId, bigPort>>, <<bigPort, shortId>>,
                           <<P(b_id, WHashA), bigPort, intToken>>,
                           <<P(b_id, WHashA), intToken, bigPort>>,
                           <<shortId, bigPort, intToken>>}}

WireInputs ==
    EnvelopeDicts \cup ReversedDicts \cup QueryDicts \cup ResponseDicts
    \cup ErrorDicts \cup UnknownKeyDicts \cup FaultDicts \cup PortDicts
    \cup TidDicts \cup TwoFaultDicts \cup BadVals

Init ==
    /\ src \in {Datum("wire", w) : w \in WireInputs}
    /\ cur = src
    /\ trace = <<>>

\* every generated wire input, through either codec
Spec == Init /\ [][Next]_vars

(***************************************************************************)
(* The primitive conversions on their own: a transaction id, a hash, a     *)
(* compact address, a node list or a values list is handed to its          *)
(* conversion and the result to the opposite one.                          *)
(***************************************************************************)
TidEncode ==
    /\ Len(trace) < MaxOps
    /\ cur.form = "u16"
    /\ cur' = Datum("tid", EncT(cur.val))
    /\ trace' = Append(trace, "TidEncode")
    /\ UNCHANGED src

LibTidDecode ==
    /\ Len(trace) < MaxOps
    /\ cur.form = "tid"
    /\ cur' = Outcome(LibTransactionIdDecode(cur.val), "u16")
    /\ trace' = Append(trace, "LibTidDecode")
    /\ UNCHANGED src

RawTidDecode ==
    /\ Len(trace) < MaxOps
    /\ cur.form = "tid"
    /\ cur' = Outcome(RawTransactionIdDecode(cur.val), "u16")
    /\ trace' = Append(trace, "RawTidDecode")
    /\ UNCHANGED src

HashEncode ==
    /\ Len(trace) < MaxOps
    /\ cur.form = "hash"
    /\ cur' = Datum("hashobj", Hash_encode(cur.val))
    /\ trace' = Append(trace, "HashEncode")
    /\ UNCHANGED src

HashDecode ==
    /\ Len(trace) < MaxOps
    /\ cur.form = "hashobj"
    /\ cur' = Outcome(Hash_decode(cur.val), "hash")
    /\ trace' = Append(trace, "HashDecode")
    /\ UNCHANGED src

AddrIntoBytes ==
    /\ Len(trace) < MaxOps
    /\ cur.form = "addr"
    /\ cur' = Datum("addrbytes", SocketAddrV4_into_bytes(cur.val))
    /\ trace' = Append(trace, "AddrIntoBytes")
    /\ UNCHANGED src

AddrFromBytes ==
    /\ Len(trace) < MaxOps
    /\ cur.form = "addrbytes"
    /\ cur' = Outcome(SocketAddrV4_from_bytes(cur.val), "addr")
    /\ trace' = Append(trace, "AddrFromBytes")
    /\ UNCHANGED src

NodesIntoBytes ==
    /\ Len(trace) < MaxOps
    /\ cur.form = "nodes"
    /\ cur' = Datum("nodesbytes", VecNode_into_bytes(cur.val))
    /\ trace' = Append(trace, "NodesIntoBytes")
    /\ UNCHANGED src

NodesFromBytes ==
    /\ Len(trace) < MaxOps
    /\ cur.form = "nodesbytes"
    /\ cur' = Outcome(VecNode_from_bytes(cur.val), "nodes")
    /\ trace' = Append(trace, "NodesFromBytes")
    /\ UNCHANGED src

ValuesEncode ==
    /\ Len(trace) < MaxOps
    /\ cur.form = "values"
    /\ cur' = Datum("valuesobj", EncValues(cur.val))
    /\ trace' = Append(trace, "ValuesEncode")
    /\ UNCHANGED src

ValuesDecode ==
    /\ Len(trace) < MaxOps
    /\ cur.form = "valuesobj"
    /\ cur' = Outcome(VecSockaddr_decode(cur.val), "values")
    /\ trace' = Append(trace, "ValuesDecode")
    /\ UNCHANGED src

NextPrim ==
    \/ TidEncode \/ LibTidDecode \/ RawTidDecode
    \/ HashEncode \/ HashDecode
    \/ AddrIntoBytes \/ AddrFromBytes
    \/ NodesIntoBytes \/ NodesFromBytes
    \/ ValuesEncode \/ ValuesDecode

\* the u16 range of a transaction id and of a port
U16 == 0..65535

\* bytes at both ends and in the middle of the range
ByteSamples == {0, 1, 97, 255}

\* a byte string of a given length whose i-th byte is i
Ramp(n) == [i \in 1..n |-> i % 256]

Node3 == [id |-> [bytes |-> Ramp(HashLen)], addr |-> [ip |-> <<0, 0, 0, 0>>, port |-> 0]]

PrimAddrs ==
    {[ip |-> ip, port |-> port] :
        ip \in {<<0, 0, 0, 0>>, <<127, 0, 0, 1>>, <<255, 255, 255, 255>>, <<1, 2, 3, 4>>},
        port \in {0, 1, 255, 256, 6881, 24930, 65535}}

TidInputs ==
    {BBytes(s) : s \in WTidStrings} \cup {BInt(0), BList(<<>>), BDict(<<>>)}

HashInputs ==
    {BBytes(Ramp(n)) : n \in 0..(HashLen + 2)} \cup {BInt(20), BList(<<>>), BDict(<<>>)}

AddrInputs ==
    {Ramp(n) : n \in 0..(AddrLen + 2)}
    \cup [1..AddrLen -> {0, 255}]
    \cup {<<a, 1, 2, 3, p0, p1>> : a, p0, p1 \in ByteSamples}

NodesInputs == {Ramp(n) : n \in 0..(NodeLen * MaxNodes + 1)}

ValuesInputs ==
    {BList([i \in 1..Len(vs) |-> BBytes(vs[i])]) :
        vs \in SeqsUpTo({WAddr1, WAddr2, Ramp(AddrLen - 1), Ramp(AddrLen + 1), <<>>},
                        MaxNodes)}
    \cup {BInt(0), BBytes(WAddr1), BList(<<BInt(1)>>)}

InitPrim ==
    /\ \/ \E n \in U16 : src = Datum("u16", n)
       \/ \E v \in TidInputs : src = Datum("tid", v)
       \/ \E h \in {HashA, HashB} : src = Datum("hash", h)
       \/ \E v \in HashInputs : src = Datum("hashobj", v)
       \/ \E a \in PrimAddrs : src = Datum("addr", a)
       \/ \E b \in AddrInputs : src = Datum("addrbytes", b)
       \/ \E ns \in SeqsUpTo({Node1, Node2, Node3}, MaxNodes) : src = Datum("nodes", ns)
       \/ \E b \in NodesInputs : src = Datum("nodesbytes", b)
       \/ \E vs \in SeqsUpTo({Addr1, Addr2}, MaxNodes) : src = Datum("values", vs)
       \/ \E v \in ValuesInputs : src = Datum("valuesobj", v)
    /\ cur = src
    /\ trace = <<>>

\* every primitive input, through its conversion and back
SpecPrim == InitPrim /\ [][NextPrim]_vars

(***************************************************************************)
(* Reading the state.                                                      *)
(***************************************************************************)
HasKey(d, key) == \E i \in 1..Len(d) : d[i].key = key
KeySet(d) == {d[i].key : i \in 1..Len(d)}
NoDuplicateKey(d) == \A i, j \in 1..Len(d) : d[i].key = d[j].key => i = j

\* the value the walk keeps for a key: that of its last occurrence
ValOf(d, key) ==
    d[CHOOSE i \in 1..Len(d) :
          d[i].key = key /\ \A j \in (i + 1)..Len(d) : d[j].key # key].val

IsBytes(v, s) == v.k = "bytes" /\ v.v = s

\* the input is a dictionary whose key holds the byte string s
SrcHas(key) == src.form = "wire" /\ src.val.k = "dict" /\ HasKey(src.val.v, key)
SrcLacks(key) == src.form = "wire" /\ src.val.k = "dict" /\ ~HasKey(src.val.v, key)
SrcIs(key, s) == SrcHas(key) /\ IsBytes(ValOf(src.val.v, key), s)

Decoded == trace = <<"LibDecode">> \/ trace = <<"RawDecode">>
Encoded == trace = <<"LibEncode">> \/ trace = <<"RawEncode">>
LastEncoded == trace # <<>> /\ trace[Len(trace)] \in {"LibEncode", "RawEncode"}
EncodedDecoded ==
    trace = <<"LibEncode", "LibDecode">> \/ trace = <<"RawEncode", "RawDecode">>
DecodedEncoded ==
    trace = <<"LibDecode", "LibEncode">> \/ trace = <<"RawDecode", "RawEncode">>

Failed(kind, field) ==
    cur.form = "err" /\ cur.val.kind = kind /\ cur.val.field = field
Malformed == cur.form = "err" /\ cur.val.kind = "MalformedContent"
Succeeded == cur.form \in {"lib", "raw"}

\* the decoder that ran first, applied to another input
SameDecoder(w) ==
    IF trace[1] = "LibDecode" THEN LibMessageDecode(w) ELSE RawMessageDecode(w)

\* the value of every recognized top-level key of the input decodes
WalkOk ==
    /\ src.val.k = "dict"
    /\ IF trace[1] = "LibDecode"
       THEN LibMessageWalk(src.val.v).ok
       ELSE RawMessageWalk(src.val.v).ok

\* a value with the keys of every dictionary put in canonical order
RECURSIVE Canon(_)
Canon(v) ==
    IF v.k = "dict"
    THEN BDict(SortPairs([i \in 1..Len(v.v) |-> P(v.v[i].key, Canon(v.v[i].val))]))
    ELSE IF v.k = "list" THEN BList([i \in 1..Len(v.v) |-> Canon(v.v[i])])
    ELSE v

\* every dictionary of a value lists its keys in strictly increasing order
RECURSIVE DictsSorted(_)
DictsSorted(v) ==
    IF v.k = "dict"
    THEN /\ StrictlySorted(KeysOf(v.v))
         /\ \A i \in 1..Len(v.v) : DictsSorted(v.v[i].val)
    ELSE IF v.k = "list" THEN \A i \in 1..Len(v.v) : DictsSorted(v.v[i])
    ELSE TRUE

(***************************************************************************)
(* C1.  Round trip: every valid message encodes, and decoding the encoding *)
(* gives the message back.                                                 *)
(***************************************************************************)
C1_RoundTrip ==
    /\ Encoded => cur.form = "wire"
    /\ EncodedDecoded => cur.form = src.form /\ cur.val = src.val

\* an announce_peer with implied_port = Some(false) and an empty token has
\* made the round trip through lib.rs
C1_Witness ==
    /\ trace = <<"LibEncode", "LibDecode">>
    /\ src.val.payload.tag = "AnnouncePeer"
    /\ src.val.payload.implied_port = Some(FALSE)
    /\ src.val.payload.token = <<>>
    /\ src.val.transaction_id = 256
    /\ cur = src

KindKeys(q) ==
    CASE IsBytes(q, b_ping) -> {b_id}
      [] IsBytes(q, b_find_node) -> {b_id, b_target}
      [] IsBytes(q, b_get_peers) -> {b_id, b_info_hash}
      [] IsBytes(q, b_announce_peer) ->
            {b_id, b_implied_port, b_info_hash, b_port, b_token}
      [] OTHER -> {}

\* the input carries exactly the keys of its message kind, each once, its
\* `e` list has two elements and its implied_port is 0 or 1
SchemaExact(w) ==
    /\ w.k = "dict"
    /\ NoDuplicateKey(w.v)
    /\ HasKey(w.v, b_y)
    /\ LET y == ValOf(w.v, b_y)
           payload(key) == ValOf(w.v, key)
       IN  CASE IsBytes(y, b_q) ->
                  /\ KeySet(w.v) = {b_a, b_q, b_t, b_y}
                  /\ payload(b_a).k = "dict"
                  /\ NoDuplicateKey(payload(b_a).v)
                  /\ KeySet(payload(b_a).v) \subseteq KindKeys(payload(b_q))
                  /\ HasKey(payload(b_a).v, b_implied_port) =>
                        ValOf(payload(b_a).v, b_implied_port) \in {BInt(0), BInt(1)}
             [] IsBytes(y, b_r) ->
                  /\ KeySet(w.v) = {b_r, b_t, b_y}
                  /\ payload(b_r).k = "dict"
                  /\ NoDuplicateKey(payload(b_r).v)
                  /\ KeySet(payload(b_r).v) \subseteq {b_id, b_nodes, b_token, b_values}
             [] IsBytes(y, b_e) ->
                  /\ KeySet(w.v) = {b_e, b_t, b_y}
                  /\ payload(b_e).k = "list"
                  /\ Len(payload(b_e).v) = 2
             [] OTHER -> FALSE

C3_CanonicalEncoding ==
    LastEncoded => cur.form = "wire" /\ DictsSorted(cur.val)

\* lib.rs emitted t, q, y, a for a query and the envelope reads a, q, t, y
C3_Witness ==
    /\ trace = <<"LibEncode">>
    /\ src.val.payload.tag = "AnnouncePeer"
    /\ cur.form = "wire"
    /\ KeysOf(cur.val.v) = <<b_a, b_q, b_t, b_y>>
    /\ Len(ValOf(cur.val.v, b_a).v) = 5

(***************************************************************************)
(* C4.  Required fields of a query: a find_node whose `a` lacks target, a  *)
(* get_peers whose `a` lacks info_hash and an announce_peer whose `a`      *)
(* lacks info_hash, port or token never decode successfully, and when the  *)
(* values of all keys present decode, the error is MissingField naming an  *)
(* absent required key.                                                    *)
(***************************************************************************)
\* the required keys of the query's kind that its `a` lacks
AbsentRequired ==
    LET need == KindKeys(ValOf(src.val.v, b_q)) \ {b_id, b_implied_port}
    IN  IF SrcIs(b_y, b_q) /\ SrcHas(b_q) /\ SrcHas(b_a)
           /\ ValOf(src.val.v, b_a).k = "dict"
        THEN {key \in need : ~HasKey(ValOf(src.val.v, b_a).v, key)}
        ELSE {}

FieldName(key) ==
    CASE key = b_target -> "target"
      [] key = b_info_hash -> "info_hash"
      [] key = b_port -> "port"
      [] key = b_token -> "token"
      [] OTHER -> "?"

C4_RequiredFields ==
    (Decoded /\ AbsentRequired # {}) =>
        /\ ~Succeeded
        /\ (WalkOk /\ SrcHas(b_t)) =>
              \E key \in AbsentRequired : Failed("MissingField", FieldName(key))

(***************************************************************************)
(* C5.  Envelope invariant: a decoded message has exactly one of query     *)
(* args, response and error populated, the one of its class, and a query   *)
(* kind only when its class is Query.                                      *)
(***************************************************************************)
EnvelopeInvariant(m) ==
    /\ m.msg_type = "Query" =>
          m.query_type.some /\ m.query_args.some /\ ~m.response.some /\ ~m.error.some
    /\ m.msg_type = "Response" =>
          ~m.query_type.some /\ ~m.query_args.some /\ m.response.some /\ ~m.error.some
    /\ m.msg_type = "Error" =>
          ~m.query_type.some /\ ~m.query_args.some /\ ~m.response.some /\ m.error.some

C5_EnvelopeInvariant ==
    /\ (trace = <<"LibDecode">> /\ cur.form = "lib") => EnvelopeInvariant(Flat(cur.val))
    /\ (trace = <<"RawDecode">> /\ cur.form = "raw") => EnvelopeInvariant(cur.val)

(***************************************************************************)
(* C6.  A top-level dictionary without `t` fails with MissingField("t"),   *)
(* and one with `t` and without `y` with MissingField("y"), whatever other *)
(* keys are present, when their values decode.                             *)
(***************************************************************************)
C6_MissingTY ==
    (Decoded /\ WalkOk) =>
        /\ SrcLacks(b_t) => Failed("MissingField", "t")
        /\ (SrcHas(b_t) /\ SrcLacks(b_y)) => Failed("MissingField", "y")

\* a dictionary with `a` and `q` but neither `t` nor `y` was refused for its
\* missing `t`
C6_Witness ==
    /\ trace = <<"LibDecode">>
    /\ SrcLacks(b_t)
    /\ SrcLacks(b_y)
    /\ SrcHas(b_a) /\ SrcHas(b_q)
    /\ Failed("MissingField", "t")

(***************************************************************************)
(* C7.  Payload presence by class: with y = "q" a message without `q`      *)
(* fails with MissingField("q") and one without `a` with                  *)
(* MissingField("a"); with y = "e" a message without `e` fails with        *)
(* MissingField("e"); none of them decodes successfully.                   *)
(***************************************************************************)
C7_PayloadPresence ==
    Decoded =>
        /\ (SrcIs(b_y, b_q) /\ (SrcLacks(b_q) \/ SrcLacks(b_a))) => ~Succeeded
        /\ (SrcIs(b_y, b_e) /\ SrcLacks(b_e)) => ~Succeeded
        /\ (WalkOk /\ SrcHas(b_t)) =>
              /\ (SrcIs(b_y, b_q) /\ SrcLacks(b_q)) => Failed("MissingField", "q")
              /\ (SrcIs(b_y, b_q) /\ SrcHas(b_q) /\ SrcLacks(b_a)) =>
                    Failed("MissingField", "a")
              /\ (SrcIs(b_y, b_e) /\ SrcLacks(b_e)) => Failed("MissingField", "e")

(***************************************************************************)
(* C8.  A message with y = "r" and no `r` key fails with a missing-field   *)
(* error that names the field `r`.                                         *)
(***************************************************************************)
C8_MissingR ==
    (Decoded /\ WalkOk /\ SrcHas(b_t) /\ SrcIs(b_y, b_r) /\ SrcLacks(b_r)) =>
        Failed("MissingField", "r")

(***************************************************************************)
(* C9.  Enumeration validation: in a message that decodes once its `y` is  *)
(* replaced by a class, a `y` byte string other than q, r, e fails as      *)
(* Malformed; in a query that decodes once its `q` is replaced by a query  *)
(* name, a `q` byte string other than the four names fails as Malformed.   *)
(***************************************************************************)
Classes == {b_q, b_r, b_e}
QueryNames == {b_ping, b_find_node, b_get_peers, b_announce_peer}

BadEnum(key, names) ==
    /\ SrcHas(key)
    /\ ValOf(src.val.v, key).k = "bytes"
    /\ ValOf(src.val.v, key).v \notin names
    /\ \E s \in names : SameDecoder(Replaced(src.val, key, BBytes(s))).ok

C9_EnumerationValidation ==
    Decoded =>
        /\ BadEnum(b_y, Classes) => Malformed
        /\ (SrcIs(b_y, b_q) /\ BadEnum(b_q, QueryNames)) => Malformed

\* a query named "pong", otherwise complete, was refused as malformed
C9_Witness ==
    /\ trace = <<"LibDecode">>
    /\ SrcIs(b_y, b_q)
    /\ BadEnum(b_q, QueryNames)
    /\ Malformed

(***************************************************************************)
(* C10.  Unknown-key tolerance: a key outside the schema in the envelope,  *)
(* in `a` or in `r`, with a value of any kind, does not change the outcome *)
(* of decode.                                                              *)
(***************************************************************************)
EnvelopeKeys == {b_a, b_e, b_q, b_r, b_t, b_y}
ArgsKeys == {b_id, b_implied_port, b_info_hash, b_port, b_target, b_token}
ResponseKeys == {b_id, b_nodes, b_token, b_values}

Only(v, keys) ==
    IF v.k = "dict" THEN BDict(SelectSeq(v.v, LAMBDA p : p.key \in keys)) ELSE v

\* the input without its keys outside the schema
Stripped(w) ==
    LET top == Only(w, EnvelopeKeys)
    IN  IF w.k # "dict" THEN w
        ELSE BDict([i \in 1..Len(top.v) |->
                 CASE top.v[i].key = b_a -> P(b_a, Only(top.v[i].val, ArgsKeys))
                   [] top.v[i].key = b_r -> P(b_r, Only(top.v[i].val, ResponseKeys))
                   [] OTHER -> top.v[i]])

TidDecoded == trace = <<"LibTidDecode">> \/ trace = <<"RawTidDecode">>

C11_TransactionIdWireForm ==
    /\ trace = <<"TidEncode">> =>
          cur.form = "tid" /\ cur.val = BBytes(<<src.val \div 256, src.val % 256>>)
    /\ (TidDecoded /\ src.val.k = "bytes") =>
          IF Len(src.val.v) = 2
          THEN cur.form = "u16" /\ cur.val = 256 * src.val.v[1] + src.val.v[2]
          ELSE Malformed
    /\ (Len(trace) = 2 /\ trace[1] = "TidEncode") =>
          cur.form = "u16" /\ cur.val = src.val

\* a `t` of three bytes was refused by lib.rs as malformed
C11_Witness ==
    /\ trace = <<"LibTidDecode">>
    /\ src.val = BBytes(<<97, 98, 99>>)
    /\ Malformed

(***************************************************************************)
(* C12.  Lengths of the primitive decoders: a hash decodes from a byte     *)
(* string exactly when its length is 20; a compact address, alone or as an *)
(* element of `values`, fails for every length other than 6; a node string *)
(* fails when its length is not a multiple of 26 and gives length / 26     *)
(* nodes otherwise, none for the empty string.                             *)
(***************************************************************************)
C12_LengthInvariants ==
    /\ (trace = <<"HashDecode">> /\ src.val.k = "bytes") =>
          IF Len(src.val.v) = HashLen
          THEN cur.form = "hash" /\ cur.val.bytes = src.val.v
          ELSE Malformed
    /\ (trace = <<"AddrFromBytes">> /\ Len(src.val) # AddrLen) => Malformed
    /\ (/\ trace = <<"ValuesDecode">>
        /\ src.val.k = "list"
        /\ \E i \in 1..Len(src.val.v) :
              src.val.v[i].k = "bytes" /\ Len(src.val.v[i].v) # AddrLen)
          => cur.form = "err"
    /\ trace = <<"NodesFromBytes">> =>
          IF Len(src.val) % NodeLen = 0
          THEN cur.form = "nodes" /\ Len(cur.val) = Len(src.val) \div NodeLen
          ELSE Malformed

\* a node string of 27 bytes, one node and one byte more, was refused
C12_Witness ==
    /\ trace = <<"NodesFromBytes">>
    /\ Len(src.val) = NodeLen + 1
    /\ Malformed

(***************************************************************************)
(* C13.  Decode is total: whatever bencode value is handed to Message      *)
(* decode, the outcome is a message or an error value; no input reaches    *)
(* the unwrap of the node conversion or the panic of the address           *)
(* conversion.                                                             *)
(***************************************************************************)
Panicked == cur.form = "err" /\ cur.val.kind = "Panic"

C13_DecodeTotal ==
    Decoded =>
        /\ ~Panicked
        /\ \/ Succeeded
           \/ /\ cur.form = "err"
              /\ cur.val.kind \in {"MissingField", "MalformedContent", "UnexpectedToken"}

\* a response whose node string is one byte short of a node came back from
\* lib.rs as an error value
C13_Witness ==
    /\ trace = <<"LibDecode">>
    /\ SrcIs(b_y, b_r)
    /\ SrcHas(b_r)
    /\ ValOf(src.val.v, b_r).k = "dict"
    /\ HasKey(ValOf(src.val.v, b_r).v, b_nodes)
    /\ ValOf(ValOf(src.val.v, b_r).v, b_nodes).k = "bytes"
    /\ Len(ValOf(ValOf(src.val.v, b_r).v, b_nodes).v) = NodeLen - 1
    /\ Malformed

(***************************************************************************)
(* C14.  Context trail: when the value of a recognized key fails to        *)
(* decode, the error carries the name of that key, preceded by the name of *)
(* the enclosing key when it is a key of `a` or of `r`.                    *)
(***************************************************************************)
KeyName(key) ==
    CASE key = b_t -> "t" [] key = b_y -> "y" [] key = b_q -> "q"
      [] key = b_a -> "a" [] key = b_r -> "r" [] key = b_e -> "e"
      [] key = b_id -> "id" [] key = b_target -> "target"
      [] key = b_info_hash -> "info_hash" [] key = b_implied_port -> "implied_port"
      [] key = b_port -> "port" [] key = b_token -> "token"
      [] key = b_nodes -> "nodes" [] key = b_values -> "values"
      [] OTHER -> "?"

\* what the decoder that ran makes of one top-level pair on its own
StepOf(pair) ==
    IF trace[1] = "LibDecode"
    THEN LibMessageStep(MessageNone, pair)
    ELSE RawMessageStep(RawMessageNone, pair)

\* what it makes of one pair of `a` or of `r` on its own
InnerStepOf(outer, pair) ==
    IF trace[1] = "LibDecode"
    THEN IF outer = b_a THEN LibAStep(ANone, pair)
         ELSE LibResponseStep(ResponseNone, pair)
    ELSE IF outer = b_a THEN RawQueryArgsStep(QueryArgsNone, pair)
         ELSE RawResponseStep(RawResponseNone, pair)

\* the top-level pairs whose value fails to decode
BadPairs == {i \in 1..Len(src.val.v) : ~StepOf(src.val.v[i]).ok}

FirstBad == CHOOSE i \in BadPairs : \A j \in BadPairs : i <= j

\* the names of the first failing key and, inside `a` or `r`, of the first
\* failing key there
ExpectedTrail ==
    LET p == src.val.v[FirstBad]
        inner == IF p.key \in {b_a, b_r} /\ p.val.k = "dict" THEN p.val.v ELSE <<>>
        ibad == {j \in 1..Len(inner) : ~InnerStepOf(p.key, inner[j]).ok}
        first == CHOOSE j \in ibad : \A k \in ibad : j <= k
    IN  <<KeyName(p.key)>>
        \o (IF ibad = {} THEN <<>> ELSE <<KeyName(inner[first].key)>>)

C14_ContextTrail ==
    (Decoded /\ src.val.k = "dict" /\ BadPairs # {}) =>
        cur.form = "err" /\ cur.val.ctx = ExpectedTrail

(***************************************************************************)
(* C15.  Port range: in a query whose other values decode, a `port` that   *)
(* is an integer outside 0..65535 fails as malformed content, and one      *)
(* inside decodes to that port number.                                     *)
(***************************************************************************)
\* the input is a query whose `a` dictionary holds an integer under `port`
SrcHasPort ==
    /\ SrcIs(b_y, b_q)
    /\ SrcHas(b_a)
    /\ ValOf(src.val.v, b_a).k = "dict"
    /\ HasKey(ValOf(src.val.v, b_a).v, b_port)
    /\ ValOf(ValOf(src.val.v, b_a).v, b_port).k = "int"

SrcPort == ValOf(ValOf(src.val.v, b_a).v, b_port).v

\* the same input decodes once its port is a valid one
DecodesButForPort == SameDecoder(ReplacedIn(src.val, b_a, b_port, BInt(6881))).ok

C15_PortRange ==
    (Decoded /\ SrcHasPort /\ DecodesButForPort) =>
        IF SrcPort \in U16
        THEN /\ Succeeded
             /\ cur.form = "raw" => cur.val.query_args.val.port = Some(SrcPort)
             /\ (cur.form = "lib" /\ cur.val.payload.tag = "AnnouncePeer") =>
                    cur.val.payload.port = SrcPort
        ELSE Malformed

\* an announce_peer with port 65536 was refused by raw.rs as malformed
C15_Witness ==
    /\ trace = <<"RawDecode">>
    /\ SrcHasPort
    /\ DecodesButForPort
    /\ SrcIs(b_q, b_announce_peer)
    /\ SrcPort = 65536
    /\ Malformed

(***************************************************************************)
(* C16.  Optional fields on encode: the encoded `a` or `r` dictionary      *)
(* holds `id` and, of implied_port, info_hash, port, target, token, nodes  *)
(* and values, exactly the keys whose field is populated in the message.   *)
(***************************************************************************)
\* the message first handed in, in the flat form of raw.rs
SrcFlat == IF src.form = "lib" THEN Flat(src.val) ELSE src.val

\* the keys of the populated optional fields of a flat message
PopulatedKeys(m) ==
    IF m.query_args.some
    THEN {key \in {b_implied_port, b_info_hash, b_port, b_target, b_token} :
            m.query_args.val[KeyName(key)].some}
    ELSE IF m.response.some
    THEN {key \in {b_nodes, b_token, b_values} : m.response.val[KeyName(key)].some}
    ELSE {}

\* the `a` or `r` dictionary of an encoded message
PayloadDict(w) == IF HasKey(w.v, b_a) THEN ValOf(w.v, b_a) ELSE ValOf(w.v, b_r)

C16_OptionalOmission ==
    (Encoded /\ SrcFlat.msg_type # "Error") =>
        /\ cur.form = "wire"
        /\ NoDuplicateKey(PayloadDict(cur.val).v)
        /\ KeySet(PayloadDict(cur.val).v) = {b_id} \cup PopulatedKeys(SrcFlat)

\* a response with no nodes, no token and an empty list of values was
\* encoded by lib.rs with the keys id and values
C16_Witness ==
    /\ trace = <<"LibEncode">>
    /\ src.val.payload.tag = "Response"
    /\ src.val.payload.nodes = None
    /\ src.val.payload.token = None
    /\ src.val.payload.values = Some(<<>>)
    /\ cur.form = "wire"
    /\ KeysOf(ValOf(cur.val.v, b_r).v) = <<b_id, b_values>>

(***************************************************************************)
(* C17.  Envelope on encode: the top-level dictionary holds `t`, `y` and   *)
(* one payload key, `a` for a query, `r` for a response, `e` for an error, *)
(* and holds `q`, with the name of the query kind, exactly for a query;    *)
(* `y` is the byte q, r or e of the class.                                 *)
(***************************************************************************)
ClassByte(type) ==
    CASE type = "Query" -> b_q [] type = "Response" -> b_r [] type = "Error" -> b_e

PayloadKey(type) ==
    CASE type = "Query" -> b_a [] type = "Response" -> b_r [] type = "Error" -> b_e

KindName(kind) ==
    CASE kind = "Ping" -> b_ping
      [] kind = "FindNone" -> b_find_node
      [] kind = "GetPeers" -> b_get_peers
      [] kind = "AnnouncePeer" -> b_announce_peer

C17_EnvelopeShape ==
    Encoded =>
        /\ cur.form = "wire"
        /\ cur.val.k = "dict"
        /\ NoDuplicateKey(cur.val.v)
        /\ KeySet(cur.val.v) =
              {b_t, b_y, PayloadKey(SrcFlat.msg_type)}
              \cup (IF SrcFlat.msg_type = "Query" THEN {b_q} ELSE {})
        /\ IsBytes(ValOf(cur.val.v, b_y), ClassByte(SrcFlat.msg_type))
        /\ SrcFlat.msg_type = "Query" =>
              IsBytes(ValOf(cur.val.v, b_q), KindName(SrcFlat.query_type.val))

\* an error message was encoded by lib.rs with the keys e, t, y and y = "e"
C17_Witness ==
    /\ trace = <<"LibEncode">>
    /\ src.val.payload.tag = "Error"
    /\ cur.form = "wire"
    /\ KeysOf(cur.val.v) = <<b_e, b_t, b_y>>
    /\ IsBytes(ValOf(cur.val.v, b_y), b_e)

(***************************************************************************)
(* C18.  Compact address layout: six bytes [a, b, c, d, p0, p1] decode to  *)
(* the octets a.b.c.d and the port 256 * p0 + p1; an address encodes to    *)
(* its octets followed by port div 256 and port mod 256; each conversion   *)
(* undoes the other.                                                       *)
(***************************************************************************)
C18_CompactAddress ==
    /\ (trace = <<"AddrFromBytes">> /\ Len(src.val) = AddrLen) =>
          /\ cur.form = "addr"
          /\ cur.val.ip = <<src.val[1], src.val[2], src.val[3], src.val[4]>>
          /\ cur.val.port = 256 * src.val[5] + src.val[6]
    /\ trace = <<"AddrIntoBytes">> =>
          /\ cur.form = "addrbytes"
          /\ cur.val = src.val.ip \o <<src.val.port \div 256, src.val.port % 256>>
    /\ (trace = <<"AddrFromBytes", "AddrIntoBytes">>
        \/ trace = <<"AddrIntoBytes", "AddrFromBytes">>) =>
          cur.form = src.form /\ cur.val = src.val

\* the six bytes 255.1.2.3 with port bytes 0, 255 were decoded and encoded
\* back to themselves
C18_Witness ==
    /\ trace = <<"AddrFromBytes", "AddrIntoBytes">>
    /\ src.val = <<255, 1, 2, 3, 0, 255>>
    /\ cur.form = "addrbytes"
    /\ cur.val = src.val

(***************************************************************************)
(* C19.  Node list packing: n nodes encode to 26 * n bytes, the i-th 26    *)
(* bytes being the id and then the compact address of the i-th node;       *)
(* decoding returns the nodes in wire order.  The `values` list keeps its  *)
(* order in the same way, in elements of 6 bytes.                          *)
(***************************************************************************)
\* the six bytes of an address, written out
SixBytes(addr) == addr.ip \o <<addr.port \div 256, addr.port % 256>>

\* the i-th run of n bytes of a string
Run(bytes, i, n) == SubSeq(bytes, n * (i - 1) + 1, n * i)

C19_NodeListOrder ==
    /\ trace = <<"NodesIntoBytes">> =>
          /\ cur.form = "nodesbytes"
          /\ Len(cur.val) = NodeLen * Len(src.val)
          /\ \A i \in 1..Len(src.val) :
                Run(cur.val, i, NodeLen) = src.val[i].id.bytes \o SixBytes(src.val[i].addr)
    /\ (trace = <<"NodesFromBytes">> /\ cur.form = "nodes") =>
          \A i \in 1..Len(cur.val) :
              cur.val[i].id.bytes \o SixBytes(cur.val[i].addr) = Run(src.val, i, NodeLen)
    /\ trace = <<"NodesIntoBytes", "NodesFromBytes">> =>
          cur.form = "nodes" /\ cur.val = src.val
    /\ trace = <<"ValuesEncode">> =>
          /\ cur.form = "valuesobj"
          /\ cur.val = BList([i \in 1..Len(src.val) |-> BBytes(SixBytes(src.val[i]))])
    /\ (trace = <<"ValuesDecode">> /\ cur.form = "values") =>
          /\ Len(cur.val) = Len(src.val.v)
          /\ \A i \in 1..Len(cur.val) : SixBytes(cur.val[i]) = src.val.v[i].v
    /\ trace = <<"ValuesEncode", "ValuesDecode">> =>
          cur.form = "values" /\ cur.val = src.val

\* two different nodes went through the node string and came back in the
\* order they were given
C19_Witness ==
    /\ trace = <<"NodesIntoBytes", "NodesFromBytes">>
    /\ src.val = <<Node2, Node1>>
    /\ cur.form = "nodes"
    /\ cur.val = src.val

(***************************************************************************)
(* C20.  The first failing key wins: when the values of several            *)
(* recognized keys of a dictionary fail to decode, the error returned is   *)
(* that of the first of them in wire order, and no missing-field error of  *)
(* another key takes its place.  The same holds inside `a` and `r`.        *)
(***************************************************************************)
\* the pairs of the `a` or `r` dictionary under the first failing key
InnerOfFirstBad ==
    LET p == src.val.v[FirstBad]
    IN  IF p.key \in {b_a, b_r} /\ p.val.k = "dict" THEN p.val.v ELSE <<>>

InnerBadPairs ==
    {j \in 1..Len(InnerOfFirstBad) :
        ~InnerStepOf(src.val.v[FirstBad].key, InnerOfFirstBad[j]).ok}

FirstInnerBad == CHOOSE j \in InnerBadPairs : \A k \in InnerBadPairs : j <= k

C20_FirstErrorWins ==
    (Decoded /\ src.val.k = "dict" /\ BadPairs # {}) =>
        /\ cur.form = "err"
        /\ cur.val = StepOf(src.val.v[FirstBad])
        /\ InnerBadPairs # {} =>
              LET e == InnerStepOf(src.val.v[FirstBad].key, InnerOfFirstBad[FirstInnerBad])
              IN  cur.val.kind = e.kind /\ cur.val.field = e.field

\* an input with an empty `e` list ahead of an integer under `r`, and with
\* no `t`, was refused by lib.rs with the error of `e`
C20_Witness ==
    /\ trace = <<"LibDecode">>
    /\ SrcHas(b_e)
    /\ SrcHas(b_r)
    /\ SrcLacks(b_t)
    /\ StrictlySorted(KeysOf(src.val.v))
    /\ ValOf(src.val.v, b_e) = BList(<<>>)
    /\ ValOf(src.val.v, b_r) = BInt(0)
    /\ Cardinality(BadPairs) >= 2
    /\ Failed("MissingField", "code")
    /\ cur.val.ctx = <<"e">>

(***************************************************************************)
(* C21.  Presence before dispatch: a top-level dictionary that lacks `t`   *)
(* and whose `y` is a byte string other than q, r, e, its other values     *)
(* decoding, fails with MissingField("t") and not with the malformed error *)
(* of `y`.                                                                 *)
(***************************************************************************)
\* the input has a byte string other than q, r, e under `y`
SrcBadY ==
    /\ SrcHas(b_y)
    /\ ValOf(src.val.v, b_y).k = "bytes"
    /\ ValOf(src.val.v, b_y).v \notin {b_q, b_r, b_e}

\* no value of the input fails to decode, the one of `y` left aside
OnlyYMayFail == \A i \in BadPairs : src.val.v[i].key = b_y

C21_PresenceBeforeDispatch ==
    (Decoded /\ SrcLacks(b_t) /\ SrcBadY /\ OnlyYMayFail) =>
        Failed("MissingField", "t")

(***************************************************************************)
(* C22.  Range of implied_port: in a query whose other values decode, the  *)
(* integer 1 decodes to the flag true, 0 to false, and every other integer *)
(* is refused as malformed content.                                        *)
(***************************************************************************)
\* the input is a query whose `a` dictionary holds an integer under
\* implied_port
SrcHasImpliedPort ==
    /\ SrcIs(b_y, b_q)
    /\ SrcHas(b_a)
    /\ ValOf(src.val.v, b_a).k = "dict"
    /\ HasKey(ValOf(src.val.v, b_a).v, b_implied_port)
    /\ ValOf(ValOf(src.val.v, b_a).v, b_implied_port).k = "int"

SrcImpliedPort == ValOf(ValOf(src.val.v, b_a).v, b_implied_port).v

\* the same input decodes once its implied_port is 1
DecodesButForImpliedPort ==
    SameDecoder(ReplacedIn(src.val, b_a, b_implied_port, BInt(1))).ok

C22_ImpliedPortRange ==
    (Decoded /\ SrcHasImpliedPort /\ DecodesButForImpliedPort) =>
        IF SrcImpliedPort \in {0, 1}
        THEN /\ Succeeded
             /\ cur.form = "raw" =>
                    cur.val.query_args.val.implied_port = Some(SrcImpliedPort = 1)
             /\ (cur.form = "lib" /\ cur.val.payload.tag = "AnnouncePeer") =>
                    cur.val.payload.implied_port = Some(SrcImpliedPort = 1)
        ELSE Malformed

(***************************************************************************)
(* C23.  Missing sender id: when the first value that fails to decode is   *)
(* an `a` or an `r` dictionary that has no `id` key and whose pairs all    *)
(* decode, the decode fails with a missing-field error naming `id`, for    *)
(* every message kind.                                                     *)
(***************************************************************************)
SrcFirstBadLacksId ==
    /\ src.form = "wire"
    /\ src.val.k = "dict"
    /\ BadPairs # {}
    /\ src.val.v[FirstBad].key \in {b_a, b_r}
    /\ src.val.v[FirstBad].val.k = "dict"
    /\ ~HasKey(src.val.v[FirstBad].val.v, b_id)
    /\ InnerBadPairs = {}

C23_MissingSenderId ==
    (Decoded /\ SrcFirstBadLacksId) => Failed("MissingField", "id")

(***************************************************************************)
(* C24.  Error payload positions: when the first value that fails to       *)
(* decode is an `e` list, an empty list fails with a missing-field error   *)
(* naming the code position, and a list holding one integer fails with a   *)
(* missing-field error naming the message position.                        *)
(***************************************************************************)
SrcFirstBadIsEList ==
    /\ src.form = "wire"
    /\ src.val.k = "dict"
    /\ BadPairs # {}
    /\ src.val.v[FirstBad].key = b_e
    /\ src.val.v[FirstBad].val.k = "list"

SrcEList == src.val.v[FirstBad].val.v

C24_ErrorPositions ==
    (Decoded /\ SrcFirstBadIsEList) =>
        /\ Len(SrcEList) = 0 => Failed("MissingField", "code")
        /\ (Len(SrcEList) = 1 /\ SrcEList[1].k = "int") =>
               Failed("MissingField", "message")

(***************************************************************************)
(* C25.  The two implementations agree on the wire: for every message of   *)
(* the six kinds the typed encoder of lib.rs and the flat encoder of       *)
(* raw.rs, given the corresponding flat message, produce the same value,   *)
(* and each decoder accepts what the other encoder wrote and returns the   *)
(* corresponding message.                                                  *)
(***************************************************************************)
C25_CrossWireEquality ==
    /\ trace = <<"LibEncode">> =>
           /\ cur.form = "wire"
           /\ cur = Outcome(RawMessageEncode(Flat(src.val)), "wire")
    /\ trace = <<"LibEncode", "RawDecode">> =>
           /\ cur.form = "raw"
           /\ cur.val = Flat(src.val)
    /\ trace = <<"RawEncode", "LibDecode">> =>
           /\ cur.form = "lib"
           /\ Flat(cur.val) = src.val

\* a find_node query written by raw.rs has been read by lib.rs as the
\* FindNode payload it stands for
C25_Witness ==
    /\ trace = <<"RawEncode", "LibDecode">>
    /\ src.val.query_type = Some("FindNone")
    /\ cur.form = "lib"
    /\ cur.val.payload.tag = "FindNode"
    /\ Flat(cur.val) = src.val

====
